---- MODULE Spec2Model ----
(***************************************************************************)
(* Model of snapchat-backend.js: the Snapchat account-age API.             *)
(*                                                                         *)
(* The source file holds two revisions of the server.  The first           *)
(* (lines 1-262, "estimator variant") answers GET /api/snapchat-age/:u     *)
(* with a heuristic estimate from SnapchatAgeEstimator.  The second        *)
(* (lines 264-580, "authoritative variant") answers POST and GET with the  *)
(* creation timestamp the provider supplies and has no estimator.          *)
(*                                                                         *)
(* Time.  A JavaScript Date holds epoch milliseconds; the values of        *)
(* interest (2012..2026, times 5 in the weighted sum) do not fit the       *)
(* model checker's integers, so a Date is modelled in epoch MINUTES.       *)
(* Every anchor date of the source is a UTC midnight, and a day of         *)
(* minutes is divisible by every total weight (1, 3, 5) that occurs, so    *)
(* the weighted mean is exact at this resolution as it is in the source.   *)
(* Strings that the code inspects with regular expressions are sequences   *)
(* of one-character strings; strings that the code only builds are TLA+    *)
(* strings.                                                                *)
(***************************************************************************)
EXTENDS Integers, Sequences, FiniteSets, TLC

VARIABLES pc, handler, username, recaptcha, effects, upstream, res, clock, tz,
          args, ret

vars == <<pc, handler, username, recaptcha, effects, upstream, res, clock, tz,
          args, ret>>

\* ------------------------------------------------------------------ bounds

\* Usernames given to the estimator are  a^i 7^j t : i letters, j digits, one
\* optional tail.
MaxLetters == 12
MaxDigits == 3

\* Request usernames are  a^i t : i letters and one optional tail.
MaxNameLetters == 15

\* The clock may advance this many ticks between two reads of new Date().
MaxDrift == 1

\* ------------------------------------------------------- JavaScript values

MinutesPerDay == 24 * 60

Null == [null |-> TRUE]
IsNull(v) == "null" \in DOMAIN v

\* new Date(n) for a finite n, and new Date(NaN).
NewDate(n) == [valid |-> TRUE, time |-> n]
InvalidDate == [valid |-> FALSE, time |-> 0]

\* Days since 1970-01-01 of the civil date y-m-d (m in 1..12): MakeDay.
\* The year starts in March; yoe is the year of the 400-year era, doy the day
\* of the year.
DaysFromYoe(era, yoe, doy) ==
  era * 146097 + yoe * 365 + yoe \div 4 - yoe \div 100 + doy - 719468

DaysFromYear(yy, doy) == DaysFromYoe(yy \div 400, yy % 400, doy)

DaysFromCivil(y, m, d) ==
  DaysFromYear(IF m <= 2 THEN y - 1 ELSE y,
               (153 * (IF m > 2 THEN m - 3 ELSE m + 9) + 2) \div 5 + d - 1)

\* The civil date of a day number: YearFromTime, MonthFromTime, DateFromTime.
CivilFromMp(y0, doy, mp) ==
  [year  |-> y0 + (IF mp < 10 THEN 0 ELSE 1),
   month |-> IF mp < 10 THEN mp + 3 ELSE mp - 9,
   day   |-> doy - (153 * mp + 2) \div 5 + 1]

CivilFromDoy(y0, doy) == CivilFromMp(y0, doy, (5 * doy + 2) \div 153)

CivilFromYoe(era, doe, yoe) ==
  CivilFromDoy(yoe + era * 400, doe - (365 * yoe + yoe \div 4 - yoe \div 100))

CivilFromDoe(era, doe) ==
  CivilFromYoe(era, doe,
               (doe - doe \div 1460 + doe \div 36524 - doe \div 146096) \div 365)

CivilFromDays(z) == CivilFromDoe((z + 719468) \div 146097, (z + 719468) % 146097)

\* new Date('YYYY-MM-DD'): midnight UTC of that day.
DateOf(y, m, d) == NewDate(DaysFromCivil(y, m, d) * MinutesPerDay)

\* The local-time fields of a valid Date in a zone `offset` minutes east of
\* UTC; month is 0-based as Date.prototype.getMonth returns it.
FieldsOf(c, minutes) ==
  [year |-> c.year, month |-> c.month - 1, day |-> c.day, minutes |-> minutes]

LocalFields(date, offset) ==
  FieldsOf(CivilFromDays((date.time + offset) \div MinutesPerDay),
           (date.time + offset) % MinutesPerDay)

getMonth(date, offset) == LocalFields(date, offset).month

\* Date.prototype.setMonth(month): the local month field is replaced, the
\* other local fields are kept, and MakeDay carries a month outside 0..11
\* into the year and a day past the month's end into the next month.
setMonthOfFields(f, month, offset) ==
  NewDate((DaysFromCivil(f.year + month \div 12, (month % 12) + 1, 1) + f.day - 1)
            * MinutesPerDay + f.minutes - offset)

setMonth(date, month, offset) ==
  IF ~date.valid THEN InvalidDate
  ELSE setMonthOfFields(LocalFields(date, offset), month, offset)

MonthNames ==
  <<"January", "February", "March", "April", "May", "June", "July",
    "August", "September", "October", "November", "December">>

\* formatDate: toLocaleDateString('en-US', {year, month: 'long', day}).
formatFields(f) ==
  MonthNames[f.month + 1] \o " " \o ToString(f.day) \o ", " \o ToString(f.year)

formatDate(date, offset) ==
  IF ~date.valid THEN "Invalid Date" ELSE formatFields(LocalFields(date, offset))

\* String.prototype.includes over the code units of a string.
includes(chars, sub) ==
  \E i \in 1..(Len(chars) - Len(sub) + 1) :
    SubSeq(chars, i, i + Len(sub) - 1) = sub

\* The code units of the accuracy strings the callers pass.
MonthsChars == <<" ", "m", "o", "n", "t", "h", "s">>

CodeUnits(accuracy) ==
  CASE accuracy = "±3 months"  -> <<"±", "3">> \o MonthsChars
    [] accuracy = "±6 months"  -> <<"±", "6">> \o MonthsChars
    [] accuracy = "±12 months" -> <<"±", "1", "2">> \o MonthsChars
    [] OTHER                   -> <<>>

\* calculateDateRange(date, accuracy): the radius is read off the string.
monthsToAddOf(accuracy) ==
  LET chars == CodeUnits(accuracy)
  IN  IF includes(chars, <<"3">> \o MonthsChars) THEN 3
      ELSE IF includes(chars, <<"6">> \o MonthsChars) THEN 6
      ELSE IF includes(chars, <<"1", "2">> \o MonthsChars) THEN 12
      ELSE 0

rangeAround(baseDate, month, monthsToAdd, offset) ==
  [start |-> formatDate(setMonth(baseDate, month - monthsToAdd, offset), offset),
   end   |-> formatDate(setMonth(baseDate, month + monthsToAdd, offset), offset)]

calculateDateRangeSwapped(date, accuracy, offset) ==
  IF date.valid
  THEN rangeAround(date, getMonth(date, offset), 0 - monthsToAddOf(accuracy), offset)
  ELSE [start |-> "Invalid Date", end |-> "Invalid Date"]

calculateDateRange(date, accuracy, offset) ==
  IF date.valid
  THEN rangeAround(date, getMonth(date, offset), monthsToAddOf(accuracy), offset)
  ELSE [start |-> "Invalid Date", end |-> "Invalid Date"]

\* Math.ceil(x / y) and Math.floor(x / y) for x >= 0, y > 0.
CeilDiv(x, y) == (x + y - 1) \div y
FloorDiv(x, y) == x \div y

Abs(x) == IF x < 0 THEN 0 - x ELSE x

Plural(n) == IF n > 1 THEN "s" ELSE ""

\* calculateAge(createdDate), with `now` the value new Date() returns.
ageText(diffDays, diffMonths, diffYears, remainingMonths) ==
  IF diffYears > 0
  THEN ToString(diffYears) \o " year" \o Plural(diffYears)
         \o (IF remainingMonths > 0
             THEN " and " \o ToString(remainingMonths) \o " month"
                    \o Plural(remainingMonths)
             ELSE "")
  ELSE IF diffMonths > 0
  THEN ToString(diffMonths) \o " month" \o Plural(diffMonths)
  ELSE ToString(diffDays) \o " day" \o Plural(diffDays)

ageOfMonths(diffDays, diffMonths) ==
  ageText(diffDays, diffMonths, FloorDiv(diffMonths, 12), diffMonths % 12)

ageOfDays(diffDays) == ageOfMonths(diffDays, FloorDiv(diffDays, 30))

calculateAgeFloor(created, now) ==
  IF ~created.valid THEN "NaN day"
  ELSE ageOfDays(FloorDiv(Abs(now - created.time), MinutesPerDay))

calculateAge(created, now) ==
  IF ~created.valid THEN "NaN day"
  ELSE ageOfDays(CeilDiv(Abs(now - created.time), MinutesPerDay))

\* calculateAgeDays(createdDate); NaN is serialised as null in the JSON body.
calculateAgeDays(created, now) ==
  IF ~created.valid THEN -1
  ELSE FloorDiv(Abs(now - created.time), MinutesPerDay)

\* ------------------------------------------------------ regular expressions

Lower == {"a", "b", "c", "d", "e", "f", "g", "h", "i", "j", "k", "l", "m",
          "n", "o", "p", "q", "r", "s", "t", "u", "v", "w", "x", "y", "z"}
Upper == {"A", "B", "C", "D", "E", "F", "G", "H", "I", "J", "K", "L", "M",
          "N", "O", "P", "Q", "R", "S", "T", "U", "V", "W", "X", "Y", "Z"}
Digit == {"0", "1", "2", "3", "4", "5", "6", "7", "8", "9"}
\* \s, as far as the display names of the model go.
Space == {" "}
\* A UTF-16 surrogate code unit, [\uD800-\uDFFF]; an emoji is a pair of them.
Surrogate == {"\\uD83D", "\\uDE00"}

\* ^[set]{lo,hi}$
AllOf(s, set, lo, hi) ==
  /\ Len(s) >= lo
  /\ Len(s) <= hi
  /\ \A i \in 1..Len(s) : s[i] \in set

\* /^[a-zA-Z0-9._]{3,15}$/ and the !username before it.
validUsernameUpTo16(u) ==
  /\ u # <<>>
  /\ AllOf(u, Lower \cup Upper \cup Digit \cup {".", "_"}, 3, 16)

validUsername(u) ==
  /\ u # <<>>
  /\ AllOf(u, Lower \cup Upper \cup Digit \cup {".", "_"}, 3, 15)

\* /^[a-z]{3,8}\d{1,3}$/
lettersThenDigits(s) ==
  \E k \in 3..8 :
    /\ k < Len(s)
    /\ AllOf(SubSeq(s, 1, k), Lower, 3, 8)
    /\ AllOf(SubSeq(s, k + 1, Len(s)), Digit, 1, 3)

\* /^[A-Z][a-z]+\s[A-Z][a-z]+$/
twoCapitalizedWords(s) ==
  \E k \in 3..(Len(s) - 2) :
    /\ s[1] \in Upper
    /\ AllOf(SubSeq(s, 2, k - 1), Lower, 1, Len(s))
    /\ s[k] \in Space
    /\ s[k + 1] \in Upper
    /\ AllOf(SubSeq(s, k + 2, Len(s)), Lower, 1, Len(s))

\* /[\uD800-\uDFFF]/
hasSurrogate(s) == \E i \in 1..Len(s) : s[i] \in Surrogate

\* /\d{4}$/
endsInFourDigits(s) ==
  /\ Len(s) >= 4
  /\ \A i \in (Len(s) - 3)..Len(s) : s[i] \in Digit

\* ------------------------------------------------------ SnapchatAgeEstimator

estimateFromUsername(u) ==
  IF u = <<>> THEN Null
  ELSE IF AllOf(u, Lower \cup Digit, 3, 8) THEN DateOf(2012, 6, 1)
  ELSE IF lettersThenDigits(u) THEN DateOf(2015, 6, 1)
  ELSE IF AllOf(u, Lower \cup Digit \cup {".", "_"}, 5, 12) THEN DateOf(2017, 6, 1)
  ELSE IF AllOf(u, Lower \cup Upper \cup Digit \cup {"_", "."}, 8, 15)
       THEN DateOf(2020, 6, 1)
  ELSE Null

estimateFromDisplayName(displayName) ==
  IF displayName = <<>> THEN Null
  ELSE IF twoCapitalizedWords(displayName) THEN DateOf(2012, 6, 1)
  ELSE IF hasSurrogate(displayName) THEN DateOf(2016, 1, 1)
  ELSE IF endsInFourDigits(displayName) THEN DateOf(2020, 1, 1)
  ELSE Null

estimateFromFollowers(followers) ==
  IF followers > 1000000 THEN DateOf(2018, 1, 1)
  ELSE IF followers > 100000 THEN DateOf(2019, 6, 1)
  ELSE IF followers > 10000 THEN DateOf(2021, 1, 1)
  ELSE DateOf(2023, 1, 1)

\* The `estimates` array of estimateAccountAge, in push order.
Estimate(date, confidence, method) ==
  [date |-> date, confidence |-> confidence, method |-> method]

pushIf(est, confidence, method) ==
  IF IsNull(est) THEN <<>> ELSE <<Estimate(est, confidence, method)>>

collectEstimatesWithoutFollowers(u, displayName, followers) ==
  pushIf(estimateFromUsername(u), 2, "Username Pattern")
  \o pushIf(estimateFromDisplayName(displayName), 2, "Display Name Pattern")
  \o (IF followers = 0 THEN <<>>
      ELSE pushIf(estimateFromFollowers(followers), 1, "Follower Count"))

collectEstimates(u, displayName, followers) ==
  pushIf(estimateFromUsername(u), 2, "Username Pattern")
  \o pushIf(estimateFromDisplayName(displayName), 2, "Display Name Pattern")
  \o pushIf(estimateFromFollowers(followers), 1, "Follower Count")

\* Array.prototype.reduce((sum, est) => sum + f(est), 0)
RECURSIVE reduceSum(_, _)
reduceSum(estimates, weighted) ==
  IF estimates = <<>> THEN 0
  ELSE (IF weighted THEN Head(estimates).date.time * Head(estimates).confidence
        ELSE Head(estimates).confidence)
       + reduceSum(Tail(estimates), weighted)

\* Math.max(...estimates.map(e => e.confidence)), estimates non-empty
maxConfidenceOf(estimates) ==
  CHOOSE c \in {estimates[i].confidence : i \in 1..Len(estimates)} :
    \A i \in 1..Len(estimates) : estimates[i].confidence <= c

confidenceLevelAlwaysMedium(maxConfidence) ==
  IF maxConfidence >= 1 THEN "medium" ELSE "low"

confidenceLevelOf(maxConfidence) ==
  IF maxConfidence = 2 THEN "medium" ELSE "low"

primaryMethodLast(estimates, maxConfidence) ==
  LET hits == {i \in 1..Len(estimates) : estimates[i].confidence = maxConfidence}
  IN  IF hits = {} THEN "Combined"
      ELSE estimates[CHOOSE i \in hits : \A j \in hits : j <= i].method

\* estimates.find(e => e.confidence === maxConfidence)?.method || 'Combined'
primaryMethodOf(estimates, maxConfidence) ==
  LET hits == {i \in 1..Len(estimates) : estimates[i].confidence = maxConfidence}
  IN  IF hits = {} THEN "Combined"
      ELSE estimates[CHOOSE i \in hits : \A j \in hits : i <= j].method

accuracyOf(confidenceLevel) ==
  IF confidenceLevel = "medium" THEN "±6 months" ELSE "±12 months"

\* estimateAccountAge(username, displayName, followers); `now` is new Date().
\* The default branch returns no allEstimates property (undefined).
estimateResult(estimates, finalDate, confidenceLevel, primaryMethod, accuracy, offset) ==
  [estimatedDate   |-> finalDate,
   confidence      |-> confidenceLevel,
   method          |-> primaryMethod,
   accuracy        |-> accuracy,
   dateRange       |-> calculateDateRange(finalDate, accuracy, offset),
   allEstimates    |-> estimates,
   hasAllEstimates |-> TRUE]

combineLevel(estimates, finalDate, maxConfidence, confidenceLevel, offset) ==
  estimateResult(estimates, finalDate, confidenceLevel,
                 primaryMethodOf(estimates, maxConfidence),
                 accuracyOf(confidenceLevel), offset)

combineMax(estimates, finalDate, maxConfidence, offset) ==
  combineLevel(estimates, finalDate, maxConfidence, confidenceLevelOf(maxConfidence),
               offset)

combineUnweighted(estimates, now, offset) ==
  IF Len(estimates) = 0
  THEN [estimatedDate   |-> NewDate(now),
        confidence      |-> "very_low",
        method          |-> "Default",
        accuracy        |-> "±12 months",
        dateRange       |-> calculateDateRange(NewDate(now), "±12 months", offset),
        allEstimates    |-> <<>>,
        hasAllEstimates |-> FALSE]
  ELSE combineMax(estimates,
                  NewDate(reduceSum(estimates, TRUE) \div Len(estimates)),
                  maxConfidenceOf(estimates), offset)

combine(estimates, now, offset) ==
  IF Len(estimates) = 0
  THEN [estimatedDate   |-> NewDate(now),
        confidence      |-> "very_low",
        method          |-> "Default",
        accuracy        |-> "±12 months",
        dateRange       |-> calculateDateRange(NewDate(now), "±12 months", offset),
        allEstimates    |-> <<>>,
        hasAllEstimates |-> FALSE]
  ELSE combineMax(estimates,
                  NewDate(reduceSum(estimates, TRUE) \div reduceSum(estimates, FALSE)),
                  maxConfidenceOf(estimates), offset)

estimateAccountAge(u, displayName, followers, now, offset) ==
  combine(collectEstimates(u, displayName, followers), now, offset)

\* ------------------------------------------------------------------ inputs

RECURSIVE Rep(_, _)
Rep(c, n) == IF n = 0 THEN <<>> ELSE <<c>> \o Rep(c, n - 1)

Tails == {<<>>, <<".">>, <<"_">>, <<"Q">>, <<"@">>}

\* The usernames a request or a provider record may carry.
Usernames ==
  {Rep("a", i) \o Rep("7", j) \o t : i \in 0..MaxLetters, j \in 0..MaxDigits,
                                      t \in Tails}

RequestUsernames ==
  {Rep("a", i) \o t : i \in 0..MaxNameLetters, t \in Tails} \ {<<>>}

\* Display names: none, a real name, a name with an emoji, a year suffix,
\* a real name followed by an emoji, and a plain word.
DisplayNames ==
  {<<>>,
   <<"J", "o", " ", "D", "o", "e">>,
   <<"j", "o", "\\uD83D", "\\uDE00">>,
   <<"j", "o", "2", "0", "2", "0">>,
   <<"J", "o", " ", "D", "o", "e", "\\uD83D", "\\uDE00">>,
   <<"j", "o", "e">>}

FollowerCounts == {0, 10000, 10001, 100001, 1000001}

\* The server's zone, minutes east of UTC (a fixed offset: no daylight saving).
TZOffsets == {0 - 300, 0, 330}

Accuracies == {"±3 months", "±6 months", "±12 months"}

\* Base dates for calculateDateRange: every day of a window holding a leap
\* February, early and late in the day.
FirstBaseDay == DaysFromCivil(2019, 11, 1)
BaseDays == 427
BaseDates ==
  {NewDate((FirstBaseDay + i) * MinutesPerDay + m) :
     i \in 0..(BaseDays - 1), m \in {0, MinutesPerDay - 1}}

\* Elapsed times for calculateAge: whole days and days with a fraction.
MaxAgeDays == 800
Fractions == {0, 1, MinutesPerDay \div 2}
Epoch2025 == DaysFromCivil(2025, 1, 1) * MinutesPerDay
Clocks == {Epoch2025, Epoch2025 + 725}

\* ------------------------------------------------- the functions on their own

Blank ==
  /\ username = <<>>
  /\ recaptcha = FALSE
  /\ effects = <<>>
  /\ upstream = Null
  /\ res = Null

InitFn ==
  /\ Blank
  /\ pc = "call"
  /\ ret = Null
  /\ \/ /\ handler = "calculateDateRange"
        /\ clock = Epoch2025
        /\ tz \in TZOffsets
        /\ args \in {[date |-> d, accuracy |-> a] : d \in BaseDates, a \in Accuracies}
     \/ /\ handler = "calculateAge"
        /\ clock \in Clocks
        /\ tz = 0
        /\ args \in {[created |-> NewDate(clock + sign * (d * MinutesPerDay + f))] :
                       d \in 0..MaxAgeDays, f \in Fractions, sign \in {0 - 1, 1}}
     \/ /\ handler = "estimateAccountAge"
        /\ clock = Epoch2025
        /\ tz \in TZOffsets
        /\ args \in {[username |-> u, displayName |-> n, followers |-> f] :
                       u \in Usernames, n \in DisplayNames, f \in FollowerCounts}

CallDateRange ==
  /\ pc = "call"
  /\ handler = "calculateDateRange"
  /\ ret' = calculateDateRange(args.date, args.accuracy, tz)
  /\ pc' = "ret"
  /\ UNCHANGED <<handler, username, recaptcha, effects, upstream, res, clock, tz, args>>

CallAge ==
  /\ pc = "call"
  /\ handler = "calculateAge"
  /\ ret' = [text |-> calculateAge(args.created, clock)]
  /\ pc' = "ret"
  /\ UNCHANGED <<handler, username, recaptcha, effects, upstream, res, clock, tz, args>>

CallEstimate ==
  /\ pc = "call"
  /\ handler = "estimateAccountAge"
  /\ ret' = estimateAccountAge(args.username, args.displayName, args.followers,
                               clock, tz)
  /\ pc' = "ret"
  /\ UNCHANGED <<handler, username, recaptcha, effects, upstream, res, clock, tz, args>>

NextFn == CallDateRange \/ CallAge \/ CallEstimate

SpecFn == InitFn /\ [][NextFn]_vars

\* ------------------------------------------------------------- the handlers

Handlers == {"GET estimator", "POST", "GET"}

InvalidUsernameMessage ==
  "Invalid username format. Must be 3-15 alphanumeric characters, dots, or underscores."

\* a || b on strings held as sequences, and on numbers.
OrName(a, b) == IF a = <<>> THEN b ELSE a
OrCount(a, b) == IF a = 0 THEN b ELSE a

\* What fetch() rejects with.  node-fetch errors carry no `response`, so
\* error.response?.status is undefined: responseStatus 0.
FetchErrors ==
  {[message |-> m, responseStatus |-> 0] :
     m \in {"request failed, reason: certificate has expired",
            "request failed, reason: connect ECONNREFUSED"}}

SyntaxError == [message |-> "Unexpected token < in JSON at position 0", responseStatus |-> 0]
ReferenceError == [message |-> "text is not defined", responseStatus |-> 0]
TypeError == [message |-> "Cannot read properties of undefined", responseStatus |-> 0]

\* error.message.includes(needle) for the messages above.
messageIncludes(message, needle) ==
  <<message, needle>> \in
    {<<"request failed, reason: certificate has expired", "certificate has expired">>,
     <<"Unexpected token < in JSON at position 0", "Unexpected token">>}

\* The catch block of each handler.
catchResponse(h, error) ==
  IF h # "GET estimator" /\ messageIncludes(error.message, "certificate has expired")
  THEN [status |-> 503,
        error |-> "ScraperTech API unavailable due to expired SSL certificate"]
  ELSE IF messageIncludes(error.message, "Unexpected token")
  THEN [status |-> 500,
        error |-> IF h = "GET estimator" THEN "Failed to parse Scraper.Tech response"
                  ELSE "Failed to parse ScraperTech response"]
  ELSE IF error.responseStatus = 429
  THEN [status |-> 429, error |-> "Rate limit exceeded. Please try again later."]
  ELSE [status |-> 500,
        error |-> IF h = "GET estimator" THEN "Failed to fetch user info from Scraper.Tech"
                  ELSE "Failed to fetch user info from ScraperTech"]

\* response.ok
ok(status) == status >= 200 /\ status <= 299

UpstreamStatuses == {200, 403, 404, 429}

\* Bodies that are no profile: text that is not JSON, the JSON value null,
\* and a JSON object without the profile.
OtherBodies == {[shape |-> s] : s \in {"unparsable", "null", "object"}}

\* data.userInfo = {user, stats} of the estimator variant's provider.
ProfileDisplayNames == {<<>>, <<"J", "o", " ", "D", "o", "e">>}

EstimatorProfiles(u) ==
  {[shape |-> "profile", username |-> pu, uniqueId |-> id, displayName |-> n,
    subscriberCount |-> sc, followerCount |-> fc] :
     pu \in {<<>>, u}, id \in {<<>>, <<"a", "a", "a", "a", "a", ".">>},
     n \in ProfileDisplayNames, sc \in {0, 1000001}, fc \in {0, 100001}}

\* data.data.info.creationTimestampMs?.value: missing, the number 0, a string
\* of digits, a string that is no number.
Timestamps ==
  {[kind |-> "absent", value |-> 0], [kind |-> "zero", value |-> 0],
   [kind |-> "garbage", value |-> 0]}
  \cup {[kind |-> "digits", value |-> v] :
          v \in {Epoch2025 - 400 * MinutesPerDay,
                 Epoch2025 - 30 * MinutesPerDay + (MinutesPerDay \div 2)}}

truthyUnlessMissing(ts) == ts.kind # "absent"

truthy(ts) == ts.kind \in {"digits", "garbage"}

\* new Date(parseInt(creationTimestamp))
dateOfTimestamp(ts) == IF ts.kind = "digits" THEN NewDate(ts.value) ELSE InvalidDate

\* data.data.info of the authoritative variant's provider.  relatedAccountsInfo
\* is missing, a list of entries that each hold publicProfileInfo, or a list
\* with an entry that holds none.
AuthoritativeProfiles ==
  {[shape |-> "profile", success |-> ok_, creationTimestampMs |-> ts,
    relatedAccountsInfo |-> r] :
     ok_ \in BOOLEAN, ts \in Timestamps, r \in {"missing", "entries", "entry without publicProfileInfo"}}

Bodies(h, u) ==
  OtherBodies \cup (IF h = "GET estimator" THEN EstimatorProfiles(u) ELSE AuthoritativeProfiles)

\* What the provider call yields: a rejection, or a response.
Rejected(error) == [kind |-> "rejected", error |-> error]
Responded(status, contentType, body) ==
  [kind |-> "response", status |-> status, contentType |-> contentType, body |-> body]

UpstreamOutcomes(h, u) ==
  {Rejected(e) : e \in FetchErrors}
  \cup {Responded(st, ct, b) : st \in UpstreamStatuses,
                               ct \in {"application/json", "text/html"},
                               b \in Bodies(h, u)}

ErrorResponse(status, error) == [status |-> status, error |-> error]

\* Lines 201-234: the success branch of the estimator variant.
estimatorBody(name, nickname, followers, ageEstimate, now, offset) ==
  [status |-> 200,
   username |-> name,
   nickname |-> nickname,
   followers |-> followers,
   estimated_creation_date |-> formatDate(ageEstimate.estimatedDate, offset),
   estimated_creation_date_range |-> ageEstimate.dateRange,
   account_age |-> calculateAge(ageEstimate.estimatedDate, now),
   estimation_confidence |-> ageEstimate.confidence,
   estimation_method |-> ageEstimate.method,
   accuracy_range |-> ageEstimate.accuracy,
   all_estimates |-> ageEstimate.allEstimates]

estimatorSuccess(name, nickname, followers, now, offset) ==
  estimatorBody(name, nickname, followers,
                estimateAccountAge(name, nickname, followers, now, offset), now, offset)

\* Lines 185-240: the estimator variant after fetch() resolved.
estimatorResponse(u, response, now, offset) ==
  IF response.contentType # "application/json"
  THEN ErrorResponse(response.status, "Invalid response from Scraper.Tech")
  ELSE IF response.body.shape = "unparsable"
  THEN catchResponse("GET estimator", SyntaxError)
  ELSE IF ok(response.status) /\ response.body.shape = "profile"
  THEN estimatorSuccess(
         OrName(response.body.username, OrName(response.body.uniqueId, u)),
         response.body.displayName,
         OrCount(response.body.subscriberCount, OrCount(response.body.followerCount, 0)),
         now, offset)
  ELSE ErrorResponse(404, "User not found or profile is private")

\* Lines 399-438 and 507-546: the success branch of the authoritative variant.
\* `now` is read in calculateAge and again, `drift` ticks later, in
\* calculateAgeDays.  Mapping an entry of relatedAccountsInfo that holds no
\* publicProfileInfo throws a TypeError.
authoritativeBody(h, present, creationDate, related, now, drift, offset) ==
  IF related = "entry without publicProfileInfo"
  THEN catchResponse(h, TypeError)
  ELSE [status |-> 200,
        creation_date |-> IF present THEN formatDate(creationDate, offset) ELSE "Unknown",
        creation_date_range |->
          IF present THEN calculateDateRange(creationDate, "±3 months", offset)
          ELSE [start |-> "Unknown", end |-> "Unknown"],
        account_age |-> IF present THEN calculateAge(creationDate, now) ELSE "Unknown",
        age_days |-> IF present THEN calculateAgeDays(creationDate, now + drift) ELSE 0,
        related_accounts |-> IF related = "entries" THEN 1 ELSE 0,
        estimation_confidence |-> IF present THEN "high" ELSE "unknown",
        estimation_method |-> IF present THEN "API Provided Creation Date" ELSE "None",
        accuracy_range |-> IF present THEN "±3 months" ELSE "unknown"]

authoritativeSuccess(h, creationTimestamp, related, now, drift, offset) ==
  authoritativeBody(h, truthy(creationTimestamp),
                    IF truthy(creationTimestamp) THEN dateOfTimestamp(creationTimestamp)
                    ELSE Null,
                    related, now, drift, offset)

\* Lines 383-444 and 491-552: the authoritative variant after fetch() resolved.
\* The inner catch reads `text`, which is out of its scope: a ReferenceError.
authoritativeResponse(h, response, now, drift, offset) ==
  IF response.body.shape = "unparsable"
  THEN catchResponse(h, ReferenceError)
  ELSE IF response.body.shape = "null"
  THEN catchResponse(h, TypeError)
  ELSE IF ok(response.status) /\ response.body.shape = "profile" /\ response.body.success
  THEN authoritativeSuccess(h, response.body.creationTimestampMs,
                            response.body.relatedAccountsInfo, now, drift, offset)
  ELSE ErrorResponse(404, "User not found or profile is private")

\* Whether the estimator variant reaches SnapchatAgeEstimator.estimateAccountAge.
callsEstimator(h, outcome) ==
  /\ h = "GET estimator"
  /\ outcome.kind = "response"
  /\ outcome.contentType = "application/json"
  /\ ok(outcome.status)
  /\ outcome.body.shape = "profile"

Init ==
  /\ pc = "idle"
  /\ handler = "none"
  /\ Blank
  /\ clock = Epoch2025
  /\ tz \in TZOffsets
  /\ args = Null
  /\ ret = Null

\* A request arrives: the handler runs up to its first await.
Receive(h, u, r) ==
  /\ pc = "idle"
  /\ handler' = h
  /\ username' = u
  /\ recaptcha' = r
  /\ effects' = <<>>
  /\ upstream' = Null
  /\ IF ~validUsername(u)
     THEN res' = ErrorResponse(400, InvalidUsernameMessage) /\ pc' = "done"
     ELSE IF h = "POST" /\ ~r
     THEN res' = ErrorResponse(400, "reCAPTCHA required") /\ pc' = "done"
     ELSE res' = Null /\ pc' = (IF h = "POST" THEN "recaptcha" ELSE "delay")
  /\ UNCHANGED <<clock, tz, args, ret>>

\* POST: the siteverify call returns, fails, or is rejected.
RecaptchaVerify(outcome) ==
  /\ pc = "recaptcha"
  /\ effects' = Append(effects, "recaptcha")
  /\ IF outcome.kind = "rejected"
     THEN res' = catchResponse(handler, outcome.error) /\ pc' = "done"
     ELSE IF ~outcome.success
     THEN res' = ErrorResponse(400, "reCAPTCHA verification failed") /\ pc' = "done"
     ELSE res' = res /\ pc' = "delay"
  /\ UNCHANGED <<handler, username, recaptcha, upstream, clock, tz, args, ret>>

\* The pause before the provider call.
Delay ==
  /\ pc = "delay"
  /\ effects' = Append(effects, "delay")
  /\ pc' = "fetch"
  /\ UNCHANGED <<handler, username, recaptcha, upstream, res, clock, tz, args, ret>>

\* The provider call settles and the handler answers.
Fetch(outcome, drift) ==
  /\ pc = "fetch"
  /\ upstream' = outcome
  /\ effects' = Append(effects, "fetch")
                  \o (IF callsEstimator(handler, outcome) THEN <<"estimate">> ELSE <<>>)
  /\ res' = IF outcome.kind = "rejected" THEN catchResponse(handler, outcome.error)
            ELSE IF handler = "GET estimator"
            THEN estimatorResponse(username, outcome, clock, tz)
            ELSE authoritativeResponse(handler, outcome, clock, drift, tz)
  /\ pc' = "done"
  /\ UNCHANGED <<handler, username, recaptcha, clock, tz, args, ret>>

\* The request is over; the next one shares nothing with it.
Finish ==
  /\ pc = "done"
  /\ pc' = "idle"
  /\ handler' = "none"
  /\ username' = <<>>
  /\ recaptcha' = FALSE
  /\ effects' = <<>>
  /\ upstream' = Null
  /\ res' = Null
  /\ UNCHANGED <<clock, tz, args, ret>>

RecaptchaOutcomes ==
  {[kind |-> "response", success |-> b, error |-> TypeError] : b \in BOOLEAN}
  \cup {[kind |-> "rejected", success |-> FALSE, error |-> e] :
          e \in FetchErrors \cup {SyntaxError}}

Next ==
  \/ \E h \in Handlers, u \in RequestUsernames, r \in BOOLEAN :
       (r => h = "POST") /\ Receive(h, u, r)
  \/ \E o \in RecaptchaOutcomes : RecaptchaVerify(o)
  \/ Delay
  \/ \E o \in UpstreamOutcomes(handler, username), d \in 0..MaxDrift : Fetch(o, d)
  \/ Finish

Spec == Init /\ [][Next]_vars

\* ------------------------------------------------------------ calendar facts
\* What the claims say about dates, stated on day numbers.

\* The local calendar day of a Date.
LocalDay(date, offset) == (date.time + offset) \div MinutesPerDay

\* "June 1, 2012" for a day number.
DayText(day) == formatDate(NewDate(day * MinutesPerDay), 0)

\* The day reached from `day` by moving its month field by `delta` months and
\* keeping its day-of-month, a day past the month's end running into the next.
ShiftCivil(c, index) ==
  DaysFromCivil(index \div 12, (index % 12) + 1, 1) + c.day - 1

ShiftMonths(day, delta) ==
  ShiftCivil(CivilFromDays(day),
             CivilFromDays(day).year * 12 + (CivilFromDays(day).month - 1) + delta)

RadiusOf(accuracy) ==
  CASE accuracy = "±3 months"  -> 3
    [] accuracy = "±6 months"  -> 6
    [] accuracy = "±12 months" -> 12

IsRangeAround(range, date, radius, offset) ==
  LET base == LocalDay(date, offset)
  IN  /\ range.start = DayText(ShiftMonths(base, 0 - radius))
      /\ range.end = DayText(ShiftMonths(base, radius))

\* ------------------------------------------------------------ the HTTP claims

Did(effect) == \E i \in 1..Len(effects) : effects[i] = effect

\* The request was answered after the provider call settled.
Fetched == pc = "done" /\ Did("fetch")

\* 3 to 15 characters drawn from letters, digits, dot and underscore.
WellFormed(u) ==
  /\ Len(u) >= 3
  /\ Len(u) <= 15
  /\ \A i \in 1..Len(u) : u[i] \in Lower \cup Upper \cup Digit \cup {".", "_"}

\* C1: in every handler a username that is not 3 to 15 characters drawn from
\* letters, digits, dot and underscore is answered 400 with the fixed message,
\* and the request makes no reCAPTCHA call, no delay, no provider call and no
\* estimation, before or after the answer.
C1_InvalidUsernameRejected ==
  (pc # "idle" /\ ~WellFormed(username)) =>
    /\ pc = "done"
    /\ res = [status |-> 400, error |-> InvalidUsernameMessage]
    /\ effects = <<>>
    /\ upstream = Null

\* A POST with a reCAPTCHA token and a username of 16 letters.
C1_Witness ==
  /\ pc = "done"
  /\ handler = "POST"
  /\ recaptcha
  /\ Len(username) = 16
  /\ res.status = 400

\* The provider call succeeded and returned a profile.
ProvidedProfile ==
  /\ Fetched
  /\ upstream.kind = "response"
  /\ ok(upstream.status)
  /\ upstream.body.shape = "profile"
  /\ handler = "GET estimator" => upstream.contentType = "application/json"
  /\ handler # "GET estimator" => upstream.body.success

\* The profile carries an authoritative creation timestamp: epoch time as a
\* string of digits.
CarriesTimestamp ==
  /\ ProvidedProfile
  /\ handler # "GET estimator"
  /\ upstream.body.creationTimestampMs.kind = "digits"

\* The profile carries none: the estimator variant's provider record has no
\* such field, and the authoritative variant's holds none or the number 0.
LacksTimestamp ==
  /\ ProvidedProfile
  /\ \/ handler = "GET estimator"
     \/ upstream.body.creationTimestampMs.kind \in {"absent", "zero"}

\* C2 as stated: whenever the provider returns a profile that carries an
\* authoritative creation timestamp, the response reports confidence high and
\* accuracy +-3 months, carries no contributing estimates, has its range
\* computed with a 3-month radius around the timestamp, and the Combiner is
\* never invoked.
C2_Original ==
  CarriesTimestamp =>
    /\ res.status = 200
    /\ res.estimation_confidence = "high"
    /\ res.accuracy_range = "±3 months"
    /\ "all_estimates" \notin DOMAIN res
    /\ IsRangeAround(res.creation_date_range,
                     NewDate(upstream.body.creationTimestampMs.value), 3, tz)
    /\ ~Did("estimate")

\* What does hold of the code: every 200 answer to such a profile reports
\* confidence high and +-3 months around the timestamp, without estimating.
AuthoritativeAnswerIsHigh ==
  (CarriesTimestamp /\ res.status = 200) =>
    /\ res.estimation_confidence = "high"
    /\ res.estimation_method = "API Provided Creation Date"
    /\ res.accuracy_range = "±3 months"
    /\ "all_estimates" \notin DOMAIN res
    /\ IsRangeAround(res.creation_date_range,
                     NewDate(upstream.body.creationTimestampMs.value), 3, tz)
    /\ ~Did("estimate")

\* The date and the range of an answer, under either variant's field names.
DateOfAnswer ==
  IF handler = "GET estimator" THEN res.estimated_creation_date ELSE res.creation_date

RangeOfAnswer ==
  IF handler = "GET estimator" THEN res.estimated_creation_date_range
  ELSE res.creation_date_range

NoDate == {"Unknown", "Invalid Date"}

NatureStatuses(o) ==
  IF o.kind = "rejected" THEN {503}
  ELSE (IF o.contentType # "application/json" \/ o.body.shape = "unparsable"
        THEN {500} ELSE {})
       \cup (IF o.body.shape = "null" THEN {500, 404} ELSE {})
       \cup (IF o.status = 429 THEN {429} ELSE {})
       \cup (IF o.status = 403 THEN {403} ELSE {})
       \cup (IF o.status \in {200, 404} /\ o.body.shape # "unparsable" THEN {404} ELSE {})

\* C4 as stated: a failed provider fetch is answered 404 when the profile is
\* not found or private, 429 when the provider rate-limits, 403 when the
\* subscription or authentication expired, 503 on a TLS or availability
\* failure, 500 on a malformed payload, and with no other status.
C4_Original ==
  (Fetched /\ ~ProvidedProfile) =>
    /\ res.status \in {404, 429, 403, 503, 500}
    /\ res.status \in NatureStatuses(upstream)

\* The least number of whole days that covers `elapsed` minutes.
CeilingDays(elapsed) ==
  CHOOSE n \in 0..(MaxAgeDays + 2) :
    /\ n * MinutesPerDay >= elapsed
    /\ n > 0 => (n - 1) * MinutesPerDay < elapsed

Quantity(n, unit) == ToString(n) \o " " \o unit \o (IF n > 1 THEN "s" ELSE "")

\* The rendering of section 4.3 for a whole number of days.
Rendering(ageDays) ==
  LET months == ageDays \div 30
      years  == months \div 12
      m      == months % 12
  IN  IF years >= 1
      THEN IF m = 0 THEN Quantity(years, "year")
           ELSE Quantity(years, "year") \o " and " \o Quantity(m, "month")
      ELSE IF months >= 1 THEN Quantity(months, "month")
      ELSE Quantity(ageDays, "day")

\* C10 as stated: the age_days of a response is the ceiling of the elapsed
\* days, the day count from which the account_age of that response derives.
C10_Original ==
  (CarriesTimestamp /\ res.status = 200) =>
    /\ res.age_days
         = CeilingDays(Abs(clock - upstream.body.creationTimestampMs.value))
    /\ res.account_age = Rendering(res.age_days)

\* ------------------------------------------------------- the function claims

InFn(f) == pc = "ret" /\ handler = f

\* C5: for every base date and every radius of 3, 6 or 12 months the range of
\* calculateDateRange is the base date with the radius subtracted from and
\* added to its month field under calendar rollover, and start <= base <= end
\* as calendar dates.
C5_RangeBracketsBase ==
  InFn("calculateDateRange") =>
    LET base   == LocalDay(args.date, tz)
        radius == RadiusOf(args.accuracy)
    IN  /\ IsRangeAround(ret, args.date, radius, tz)
        /\ ShiftMonths(base, 0 - radius) <= base
        /\ base <= ShiftMonths(base, radius)

\* A 31st whose start rolls over: May 31, 2020 minus 3 months is March 2.
C5_Witness ==
  /\ InFn("calculateDateRange")
  /\ LocalFields(args.date, tz).day = 31
  /\ args.accuracy = "±3 months"
  /\ ret.start = "March 2, 2020"
  /\ ret.end = "August 31, 2020"

ShortLowerAlnum(u) ==
  /\ Len(u) \in 3..8
  /\ \A i \in 1..Len(u) : u[i] \in {"a", "7"}

OnlyUsernameSupplied ==
  /\ InFn("estimateAccountAge")
  /\ ShortLowerAlnum(args.username)
  /\ args.displayName = <<>>
  /\ args.followers = 0

Within(date, y, m, d, days) ==
  Abs(date.time - DaysFromCivil(y, m, d) * MinutesPerDay) <= days * MinutesPerDay

\* C6 as stated: a short lowercase-alphanumeric username alone yields
\* confidence medium, method Username Pattern and the anchor 2012-06-01.
C6_Original ==
  OnlyUsernameSupplied =>
    /\ ret.confidence = "medium"
    /\ ret.method = "Username Pattern"
    /\ Within(ret.estimatedDate, 2012, 6, 1, 1)

\* C6 amended: such a username alone yields confidence medium, method
\* Username Pattern, and the 2:1 weighted mean of the anchor 2012-06-01 and
\* the follower-count anchor 2023-01-01, which is 2015-12-11 to within a day.
C6_UsernameAlone ==
  OnlyUsernameSupplied =>
    /\ ret.confidence = "medium"
    /\ ret.method = "Username Pattern"
    /\ Within(ret.estimatedDate, 2015, 12, 11, 1)
    /\ 3 * ret.estimatedDate.time
         = 2 * DaysFromCivil(2012, 6, 1) * MinutesPerDay
           + DaysFromCivil(2023, 1, 1) * MinutesPerDay

C6_Witness ==
  /\ OnlyUsernameSupplied
  /\ args.username = <<"a", "a", "a">>
  /\ Len(ret.allEstimates) = 2

\* The default branch of estimateAccountAge is never taken: the follower
\* extractor always contributes an estimate.
EstimatesNeverEmpty ==
  InFn("estimateAccountAge") => ret.hasAllEstimates /\ Len(ret.allEstimates) >= 1

HasWeight(estimates, w) == \E i \in 1..Len(estimates) : estimates[i].confidence = w

\* C8: with at least one contributing estimate, confidence is medium exactly
\* when the maximum weight is 2 and low otherwise, accuracy is +-6 months
\* exactly when confidence is medium and +-12 months otherwise, and the date
\* range is the estimated date with that radius.
C8_TierAndRadius ==
  (InFn("estimateAccountAge") /\ Len(ret.allEstimates) >= 1) =>
    LET medium == HasWeight(ret.allEstimates, 2)
    IN  /\ \A i \in 1..Len(ret.allEstimates) : ret.allEstimates[i].confidence \in {1, 2}
        /\ ret.confidence = (IF medium THEN "medium" ELSE "low")
        /\ ret.accuracy = (IF ret.confidence = "medium" THEN "±6 months" ELSE "±12 months")
        /\ IsRangeAround(ret.dateRange, ret.estimatedDate,
                         IF ret.confidence = "medium" THEN 6 ELSE 12, tz)

\* Only the follower count contributes: the low tier and its 12-month radius.
C8_Witness ==
  /\ InFn("estimateAccountAge")
  /\ Len(ret.allEstimates) = 1
  /\ ret.confidence = "low"
  /\ ret.accuracy = "±12 months"
  /\ ret.dateRange = [start |-> "January 1, 2022", end |-> "January 1, 2024"]

AgeDaysOfCall == CeilingDays(Abs(clock - args.created.time))

\* C9: calculateAge renders the ceiling of the elapsed days as years and
\* months, months, or days, with "s" exactly when the quantity exceeds 1;
\* 400 days is "1 year and 1 month", 45 days "1 month", 5 days "5 days".
C9_AgeRendering ==
  InFn("calculateAge") =>
    /\ ret.text = Rendering(AgeDaysOfCall)
    /\ AgeDaysOfCall = 400 => ret.text = "1 year and 1 month"
    /\ AgeDaysOfCall = 45 => ret.text = "1 month"
    /\ AgeDaysOfCall = 5 => ret.text = "5 days"
    /\ AgeDaysOfCall = 1 => ret.text = "1 day"
    /\ AgeDaysOfCall = 720 => ret.text = "2 years"
    /\ AgeDaysOfCall = 790 => ret.text = "2 years and 2 months"

\* 399 days and a minute have elapsed: the ceiling is 400.
C9_Witness ==
  /\ InFn("calculateAge")
  /\ clock - args.created.time = 399 * MinutesPerDay + 1
  /\ ret.text = "1 year and 1 month"

\* ------------------------------------------------------------- the combiner

\* The weight the combiner is said to give an estimate of each extractor.
WeightOfMethod(method) == IF method = "Follower Count" THEN 1 ELSE 2

\* Sums over the entries of an array, taken in no particular order.
RECURSIVE SumOfWeightedTimes(_, _)
SumOfWeightedTimes(estimates, I) ==
  IF I = {} THEN 0
  ELSE LET i == CHOOSE k \in I : TRUE
       IN  estimates[i].date.time * WeightOfMethod(estimates[i].method)
           + SumOfWeightedTimes(estimates, I \ {i})

RECURSIVE SumOfWeights(_, _)
SumOfWeights(estimates, I) ==
  IF I = {} THEN 0
  ELSE LET i == CHOOSE k \in I : TRUE
       IN  WeightOfMethod(estimates[i].method) + SumOfWeights(estimates, I \ {i})

\* Every ordering of the entries of an array.
Orderings(estimates) ==
  {[i \in 1..Len(estimates) |-> estimates[p[i]]] :
     p \in Permutations(1..Len(estimates))}

\* C11: with at least one contributing estimate, username and display-name
\* estimates weigh 2 and the follower-count estimate weighs 1; estimatedDate
\* is the instant sum(date_i * weight_i) / sum(weight_i), a division without
\* remainder (so the quotient in minutes is the quotient in milliseconds);
\* combining the same estimates in any order gives the same estimatedDate;
\* and estimatedDate lies between the earliest and the latest contributing
\* date.
C11_WeightedMean ==
  (InFn("estimateAccountAge") /\ Len(ret.allEstimates) >= 1) =>
    LET es == ret.allEstimates
        I == 1..Len(ret.allEstimates)
        num == SumOfWeightedTimes(ret.allEstimates, 1..Len(ret.allEstimates))
        den == SumOfWeights(ret.allEstimates, 1..Len(ret.allEstimates))
    IN  /\ \A i \in I : es[i].confidence = WeightOfMethod(es[i].method)
        /\ num % den = 0
        /\ ret.estimatedDate = NewDate(num \div den)
        /\ \A o \in Orderings(es) :
             combine(o, clock, tz).estimatedDate = ret.estimatedDate
        /\ \E i \in I : es[i].date.time <= ret.estimatedDate.time
        /\ \E i \in I : ret.estimatedDate.time <= es[i].date.time

\* Three estimates of three different eras: 2015-06-01 and 2020-01-01 at
\* weight 2, 2018-01-01 at weight 1; the mean falls strictly between them.
C11_Witness ==
  /\ InFn("estimateAccountAge")
  /\ Len(ret.allEstimates) = 3
  /\ ret.allEstimates[1].date = DateOf(2015, 6, 1)
  /\ ret.allEstimates[2].date = DateOf(2020, 1, 1)
  /\ ret.allEstimates[3].date = DateOf(2018, 1, 1)
  /\ 5 * ret.estimatedDate.time
       = 2 * DateOf(2015, 6, 1).time + 2 * DateOf(2020, 1, 1).time
         + DateOf(2018, 1, 1).time
  /\ DateOf(2015, 6, 1).time < ret.estimatedDate.time
  /\ ret.estimatedDate.time < DateOf(2020, 1, 1).time

\* The method labels, in extraction order.
ExtractionOrder == <<"Username Pattern", "Display Name Pattern", "Follower Count">>

\* The indices of the estimates that carry the maximum weight.
TopWeighted(estimates) ==
  {i \in 1..Len(estimates) :
     \A j \in 1..Len(estimates) : estimates[j].confidence <= estimates[i].confidence}

\* C12: with at least one contributing estimate, the estimates stand in
\* extraction order (username pattern, display-name pattern, follower count,
\* each present exactly when its extractor produced a date) and the reported
\* method is the label of the first of them whose weight is the maximum
\* weight; when username and display-name estimates both exist the method is
\* "Username Pattern", and the method is "Follower Count" only when neither
\* of the other two extractors produced an estimate.
C12_PrimaryMethod ==
  (InFn("estimateAccountAge") /\ Len(ret.allEstimates) >= 1) =>
    LET es == ret.allEstimates
        hasUsername == ~IsNull(estimateFromUsername(args.username))
        hasDisplayName == ~IsNull(estimateFromDisplayName(args.displayName))
        Produced(m) == \/ m = "Username Pattern" /\ hasUsername
                       \/ m = "Display Name Pattern" /\ hasDisplayName
                       \/ m = "Follower Count"
    IN  /\ [i \in 1..Len(es) |-> es[i].method] = SelectSeq(ExtractionOrder, Produced)
        /\ \E i \in TopWeighted(es) :
             /\ \A j \in TopWeighted(es) : i <= j
             /\ ret.method = es[i].method
        /\ (hasUsername /\ hasDisplayName) => ret.method = "Username Pattern"
        /\ (hasUsername /\ ~hasDisplayName) => ret.method = "Username Pattern"
        /\ (~hasUsername /\ hasDisplayName) => ret.method = "Display Name Pattern"
        /\ ret.method = "Follower Count" <=> (~hasUsername /\ ~hasDisplayName)

\* Username and display-name estimates tie at weight 2 and the follower
\* count adds a third: the first of the tie is reported.
C12_Witness ==
  /\ InFn("estimateAccountAge")
  /\ Len(ret.allEstimates) = 3
  /\ ret.allEstimates[1].confidence = 2
  /\ ret.allEstimates[2].confidence = 2
  /\ ret.allEstimates[2].method = "Display Name Pattern"
  /\ ret.method = "Username Pattern"

====
